---- MODULE Spec2Model ----
(***************************************************************************)
(* A model of notion-to-ical-sync: the sync run of notion_to_ical.py       *)
(* (paginated fetch, page -> event mapping, calendar file write, per-      *)
(* database failure isolation in main) and the file server of              *)
(* serve_ical.py (ICalHandler.do_GET).                                     *)
(*                                                                         *)
(* Strings are sequences of characters (or, for date strings, of lexical   *)
(* tokens), so that substring tests, replace(), lstrip(), unquote() and    *)
(* the path join are computed the way the code computes them.  Python's    *)
(* None and "" are both falsy and the code only ever tests these values    *)
(* for truth, so both are the empty sequence <<>>.                         *)
(***************************************************************************)
EXTENDS Integers, Sequences, FiniteSets, TLC

VARIABLES
    input,        \* arguments of a direct call of a pure function
    output,       \* its return value
    ppc,          \* "call" before the direct call, "done" after, "idle" if none
    token,        \* NOTION_TOKEN is set
    databases,    \* main: the parsed NOTION_DATABASES list
    mpc,          \* main: "start" | "loop" | "sync" | "reported" | "exited" |
                  \*       "raised" | "idle"
    dbIdx,        \* main: index of the database the for loop is at
    errors,       \* main: the error counter
    spc,          \* sync_database: "idle" | "fetching" | "fetched" | "opened"
    cur,          \* sync_database: its locals database_id, calendar_name
    pages,        \* fetch_database_pages: the accumulated records
    cursor,       \* fetch_database_pages: payload["start_cursor"]
    requests,     \* ghost: query requests issued by the running fetch (saturating)
    fetchFailed,  \* ghost: the running fetch broke out on a request failure
    events,       \* sync_database: the events built from pages
    log,          \* ghost: one entry per finished sync_database call
    fs,           \* the file system: absolute path -> entry
    written,      \* ghost: path -> set of complete serializations written to it
    hpc,          \* do_GET: "idle" | "received" | "checked"
    reqPath,      \* do_GET: self.path of the request being handled
    response      \* do_GET: what the client got for the last request

pureVars == <<input, output, ppc>>
mainVars == <<token, databases, mpc, dbIdx, errors, log>>
syncVars == <<spc, cur, events>>
fetchVars == <<pages, cursor, requests, fetchFailed>>
fsVars == <<fs, written>>
srvVars == <<hpc, reqPath, response>>
vars == <<input, output, ppc, token, databases, mpc, dbIdx, errors, log, spc, cur,
          events, pages, cursor, requests, fetchFailed, fs, written, hpc,
          reqPath, response>>

----------------------------------------------------------------------------
(* Bounds of the model. *)

MaxDbIdLen == 2       \* characters in a database id
MaxRecIdLen == 1      \* characters in a record id

(* Program constants. *)

MAX_PAGES == 500
PAGE_SIZE == 100

----------------------------------------------------------------------------
(* Generic string helpers. *)

Min(a, b) == IF a <= b THEN a ELSE b

SeqsUpTo(S, n) == UNION {[1..k -> S] : k \in 0..n}

\* s.replace(c, "") for a one-character c
RECURSIVE Remove(_, _)
Remove(s, c) ==
    IF s = <<>> THEN <<>>
    ELSE IF Head(s) = c THEN Remove(Tail(s), c)
    ELSE <<Head(s)>> \o Remove(Tail(s), c)

\* sub in s
Contains(s, sub) ==
    \E i \in 1..(Len(s) - Len(sub) + 1) : SubSeq(s, i, i + Len(sub) - 1) = sub

\* s.startswith(pre)
StartsWith(s, pre) == Len(s) >= Len(pre) /\ SubSeq(s, 1, Len(pre)) = pre

\* s.endswith(suf)
EndsWith(s, suf) ==
    Len(s) >= Len(suf) /\ SubSeq(s, Len(s) - Len(suf) + 1, Len(s)) = suf

----------------------------------------------------------------------------
(* stable_uid *)

\* hashlib.sha256(raw).hexdigest(): an injective function of its input
Sha256Hex(raw) == <<"sha256(">> \o raw \o <<")">>

\* the f-string without its separator
stable_uid_nosep(database_id, page_id) ==
    Sha256Hex(database_id \o page_id) \o <<"@notion-sync">>

stable_uid(database_id, page_id) ==
    Sha256Hex(database_id \o <<":">> \o page_id) \o <<"@notion-sync">>

----------------------------------------------------------------------------
(* Records (Notion pages) and their property bags.  A property bag is an   *)
(* ordered mapping: a sequence of properties in iteration order.           *)

DateProp(name, start, end) ==
    [name |-> name, type |-> "date", date |-> <<[start |-> start, end |-> end]>>,
     text |-> <<>>]
NullDateProp(name) ==
    [name |-> name, type |-> "date", date |-> <<>>, text |-> <<>>]
TitleProp(name, text) ==
    [name |-> name, type |-> "title", date |-> <<>>, text |-> text]

Page(id, properties) == [id |-> id, properties |-> properties]

\* str.lower() on the property names of the model
Lower(name) ==
    CASE name = "Due" -> "due"
      [] name = "Date" -> "date"
      [] name = "Name" -> "name"
      [] OTHER -> name

preferred == {"date", "due", "when", "event date", "start", "deadline"}

\* the dict comprehension: positions of the date properties with a value
DateProps(properties) ==
    {i \in 1..Len(properties) :
        properties[i].type = "date" /\ properties[i].date # <<>>}

\* returns <<>> for (None, None), else <<value>>
find_date_property(properties) ==
    LET dp == DateProps(properties)
        pref == {i \in dp : Lower(properties[i].name) \in preferred}
        first(S) == CHOOSE i \in S : \A j \in S : i <= j
    IN  IF pref # {} THEN <<properties[first(pref)]>>
        ELSE IF dp # {} THEN <<properties[first(dp)]>>
        ELSE <<>>

----------------------------------------------------------------------------
(* Date strings are sequences of lexical tokens: a calendar date           *)
(* (YYYY-MM-DD), the letter T, a time of day, a UTC offset.                *)

DateToks == {"2024-03-01", "2024-03-02"}
TimeToks == {"09:30:00"}
OffsetToks == {"+00:00", "+05:00"}

\* minutes east of UTC of an offset token; an aware datetime keeps the
\* offset it was parsed with, timezone.utc is offset 0
OffsetMinutes(tok) == IF tok = "+05:00" THEN 300 ELSE 0

IsoDateTime(s) ==
    /\ Len(s) \in {3, 4}
    /\ s[1] \in DateToks /\ s[2] = "T" /\ s[3] \in TimeToks
    /\ Len(s) = 4 => s[4] \in OffsetToks

Raise(exc) == [tag |-> "Raise", exc |-> exc]
IsRaise(v) == v.tag = "Raise"

\* returns the parsed value; is_all_day is tag = "AllDay"
parse_notion_date(date_str) ==
    IF Contains(date_str, <<"T">>)
    THEN \* datetime.fromisoformat, then tzinfo None -> timezone.utc
         IF IsoDateTime(date_str)
         THEN [tag |-> "Instant", date |-> date_str[1], time |-> date_str[3],
               utcoffset |-> IF Len(date_str) = 4
                             THEN OffsetMinutes(date_str[4]) ELSE 0]
         ELSE Raise("ValueError")
    ELSE \* datetime.strptime(date_str, "%Y-%m-%d").date()
         IF Len(date_str) = 1 /\ date_str[1] \in DateToks
         THEN [tag |-> "AllDay", date |-> date_str[1]]
         ELSE Raise("ValueError")

Absent == [tag |-> "Absent"]
NoEvent == [tag |-> "None"]

\* the title loop: first property of type title, "Untitled" if empty
Title(properties) ==
    LET ts == {i \in 1..Len(properties) : properties[i].type = "title"}
        t == IF ts = {} THEN <<>>
             ELSE properties[CHOOSE i \in ts : \A j \in ts : i <= j].text
    IN  IF t = <<>> THEN <<"Untitled">> ELSE t

\* an Event, NoEvent (page skipped) or Raise (an exception leaves the call)
page_to_event(page, database_id) ==
    LET found == find_date_property(page.properties) IN
    IF found = <<>> THEN NoEvent
    ELSE
    LET date_value == found[1].date[1]
        start_str == date_value.start
        end_str == date_value.end
    IN
    IF start_str = <<>> THEN NoEvent
    ELSE
    LET start == parse_notion_date(start_str)
        end == IF end_str # <<>> THEN parse_notion_date(end_str) ELSE Absent
    IN
    IF IsRaise(start) THEN start
    ELSE IF IsRaise(end) THEN end
    ELSE [tag |-> "Event",
          summary |-> Title(page.properties),
          uid |-> stable_uid(database_id, page.id),
          dtstart |-> start,
          dtend |-> IF start.tag = "AllDay"
                    THEN (IF end.tag # "Absent" THEN end ELSE start)
                    ELSE end]

----------------------------------------------------------------------------
(* Direct calls of the pure functions.                                     *)

NoOutput == [tag |-> "None"]
NoInput == [tag |-> "None"]

IdChars == {"a", "-", ":"}
DbIds == SeqsUpTo(IdChars, MaxDbIdLen)
RecIds == SeqsUpTo(IdChars, MaxRecIdLen)

\* sync_database, line 300: the id of the descriptor without its dashes
SyncDatabaseId(db_config) == Remove(db_config.id, "-")

DbConfig(id, name) == [id |-> id, name |-> name]

DatedPage(id) == Page(id, <<DateProp("Date", <<"2024-03-01">>, <<>>)>>)

\* stable_uid(db1, rec1) and stable_uid(db2, rec2)
CallStableUid ==
    /\ ppc = "call" /\ input.tag = "uids"
    /\ output' = [tag |-> "Uids", via |-> "stable_uid",
                  u1 |-> stable_uid(input.db1, input.rec1),
                  u2 |-> stable_uid(input.db2, input.rec2)]
    /\ ppc' = "done"
    /\ UNCHANGED <<input, mainVars, syncVars, fetchVars, fsVars, srvVars>>

\* the uids sync_database gives the events of two records, each of a
\* database configured with the id db1 (db2): lines 300, 310, 247
CallSyncUid ==
    /\ ppc = "call" /\ input.tag = "uids"
    /\ output' = [tag |-> "Uids", via |-> "sync_database",
                  u1 |-> page_to_event(DatedPage(input.rec1),
                            SyncDatabaseId(DbConfig(input.db1, <<>>))).uid,
                  u2 |-> page_to_event(DatedPage(input.rec2),
                            SyncDatabaseId(DbConfig(input.db2, <<>>))).uid]
    /\ ppc' = "done"
    /\ UNCHANGED <<input, mainVars, syncVars, fetchVars, fsVars, srvVars>>

DateStrs ==
    {<<>>, <<"T">>}
    \cup {<<d>> : d \in DateToks}
    \cup {<<t>> : t \in TimeToks}
    \cup {<<d, "T">> : d \in DateToks}
    \cup {<<d, "T", t>> : d \in DateToks, t \in TimeToks}
    \cup {<<d, "T", t, o>> : d \in DateToks, t \in TimeToks, o \in OffsetToks}

\* property bags around one date value
Bags(s, e) ==
    { <<DateProp("Date", s, e)>>,
      <<TitleProp("Name", <<"x">>), NullDateProp("Due"), DateProp("Other", s, e)>>,
      <<DateProp("Other", <<"2024-03-02">>, <<>>), DateProp("Due", s, e)>>,
      <<TitleProp("Name", <<>>)>> }

CallPageToEvent ==
    /\ ppc = "call" /\ input.tag = "page"
    /\ output' = page_to_event(input.page, input.database_id)
    /\ ppc' = "done"
    /\ UNCHANGED <<input, mainVars, syncVars, fetchVars, fsVars, srvVars>>

\* the state of everything that is not running
IdleMain ==
    /\ token = TRUE
    /\ databases = <<>> /\ mpc = "idle" /\ dbIdx = 0 /\ errors = 0 /\ log = <<>>
IdleSync ==
    /\ spc = "idle" /\ cur = [database_id |-> <<>>, calendar_name |-> <<>>]
    /\ events = <<>>
IdleFetch ==
    /\ pages = <<>> /\ cursor = <<>> /\ requests = 0 /\ fetchFailed = FALSE
IdleServer ==
    /\ hpc = "idle" /\ reqPath = <<>> /\ response = [tag |-> "None"]
IdlePure ==
    /\ input = NoInput /\ output = NoOutput /\ ppc = "idle"
EmptyFs ==
    /\ fs = <<>> /\ written = <<>>

InitUid ==
    /\ input \in {[tag |-> "uids", db1 |-> a, rec1 |-> b, db2 |-> c, rec2 |-> d] :
                    a \in DbIds, b \in RecIds, c \in DbIds, d \in RecIds}
    /\ output = NoOutput /\ ppc = "call"
    /\ IdleMain /\ IdleSync /\ IdleFetch /\ IdleServer /\ EmptyFs

NextUid == CallStableUid \/ CallSyncUid

SpecUid == InitUid /\ [][NextUid]_vars

InitMap ==
    /\ input \in {[tag |-> "page", page |-> Page(<<"p">>, b), database_id |-> <<"a">>] :
                    b \in UNION {Bags(s, e) : s \in DateStrs, e \in DateStrs}}
    /\ output = NoOutput /\ ppc = "call"
    /\ IdleMain /\ IdleSync /\ IdleFetch /\ IdleServer /\ EmptyFs

NextMap == CallPageToEvent

SpecMap == InitMap /\ [][NextMap]_vars

----------------------------------------------------------------------------
(* The file system.  A path is the sequence of its components below the    *)
(* root, each a string; fs maps the paths that exist to their entries.     *)

Dir == [kind |-> "dir"]
File(content) == [kind |-> "file", content |-> content]
Missing == [kind |-> "missing"]

\* Path(OUTPUT_DIR).expanduser()
OUTPUT_DIR == << <<"o">> >>

\* what stat() finds at an absolute path: every component but the last must
\* be a directory, ".." steps to the parent (the root is its own parent)
RECURSIVE Walk(_, _, _)
Walk(f, at, comps) ==
    LET here == IF at = <<>> THEN Dir
                ELSE IF at \in DOMAIN f THEN f[at] ELSE Missing
    IN  IF comps = <<>> THEN here
        ELSE IF here.kind # "dir" THEN Missing
        ELSE IF Head(comps) = <<".", ".">>
             THEN Walk(f, IF at = <<>> THEN <<>> ELSE SubSeq(at, 1, Len(at) - 1),
                       Tail(comps))
             ELSE Walk(f, at \o <<Head(comps)>>, Tail(comps))

Lookup(f, path) == Walk(f, <<>>, path)

\* f with the entry at path set
FsPut(f, path, entry) ==
    [q \in DOMAIN f \cup {path} |-> IF q = path THEN entry ELSE f[q]]

----------------------------------------------------------------------------
(* fetch_database_pages *)

MaxRequests == 2      \* the ghost request counter saturates here
RemotePageLen == 2    \* records the small remote source returns per page

\* a query reply: data["results"], data["has_more"], data["next_cursor"]
Reply(results, has_more, next_cursor) ==
    [results |-> results, has_more |-> has_more, next_cursor |-> next_cursor]

\* line 166: not data.get("has_more") or len(pages) >= MAX_PAGES
StopAfter(data, accumulated) ==
    ~data.has_more \/ Len(accumulated) >= MAX_PAGES

\* lines 147-160: the request raises HTTPError or RequestException; the loop
\* breaks and the pages accumulated so far are returned
FetchFail ==
    /\ spc = "fetching" /\ token
    /\ requests' = Min(requests + 1, MaxRequests)
    /\ fetchFailed' = TRUE
    /\ spc' = "fetched"
    /\ UNCHANGED <<pages, cursor, cur, events, mainVars, fsVars, srvVars, pureVars>>

\* lines 147-169: the request succeeds with one of the replies the source
\* can give; the results are appended, and the loop ends or goes on with
\* the cursor of the reply
FetchPage(Replies) ==
    /\ spc = "fetching" /\ token
    /\ \E data \in Replies :
         /\ pages' = pages \o data.results
         /\ IF StopAfter(data, pages')
            THEN spc' = "fetched" /\ cursor' = cursor
            ELSE spc' = "fetching" /\ cursor' = data.next_cursor
    /\ requests' = Min(requests + 1, MaxRequests)
    /\ UNCHANGED <<fetchFailed, cur, events, mainVars, fsVars, srvVars, pureVars>>

\* An arbitrary source: any page size up to the page_size hint, any
\* has_more flag, any cursor (absent or repeated ones included).
BulkRecord == Page(<<"p">>, <<>>)
BulkSizes == {0, 1, PAGE_SIZE - 1, PAGE_SIZE}
Cursors == {<<>>, <<1>>}
AnyReplies ==
    {Reply([i \in 1..n |-> BulkRecord], h, c) :
        n \in BulkSizes, h \in BOOLEAN, c \in Cursors}

\* A well-behaved small source: each database has fixed contents, returned
\* RemotePageLen records at a time; the cursor is the offset to go on from.
Dated(id) == Page(id, <<TitleProp("Name", <<"x">>),
                        DateProp("Date", <<"2024-03-01">>, <<>>)>>)
Undated(id) == Page(id, <<TitleProp("Name", <<"x">>), NullDateProp("Date")>>)
Malformed(id) == Page(id, <<DateProp("Date", <<"2024-03-01", "T">>, <<>>)>>)

RemoteContent(database_id) ==
    CASE database_id = <<"a">> ->
            <<Dated(<<"p">>), Undated(<<"q">>), Dated(<<"r">>)>>
      [] database_id = <<"b">> -> <<>>
      [] database_id = <<"c">> -> <<Dated(<<"p">>), Malformed(<<"q">>)>>
      [] OTHER -> <<>>

RemoteTitle(database_id) ==
    IF database_id = <<"b">> THEN <<"_">> ELSE <<>>

RemoteReplies ==
    LET content == RemoteContent(cur.database_id)
        offset == IF cursor = <<>> THEN 0 ELSE cursor[1]
        upto == Min(offset + RemotePageLen, Len(content))
    IN  {Reply(SubSeq(content, offset + 1, upto), upto < Len(content),
               IF upto < Len(content) THEN <<upto>> ELSE <<>>)}

----------------------------------------------------------------------------
(* sync_database and main *)

MaxDbs == 3           \* databases in NOTION_DATABASES

\* line 319: c.isalnum() or c in "-_ ", on the characters of the model
IsSafeChar(c) == c \in {"a", "b", "c", "x", "-", "_", " "}
SafeName(calendar_name) ==
    [i \in 1..Len(calendar_name) |->
        IF IsSafeChar(calendar_name[i]) THEN calendar_name[i] ELSE "_"]

\* line 320: output_dir / f"{safe_name}.ics"
IcsPath(calendar_name) ==
    OUTPUT_DIR \o << SafeName(calendar_name) \o <<".", "i", "c", "s">> >>

\* cal.to_ical(): the calendar's opening lines, one block per event in
\* order, the closing line
ToIcal(calendar_name, evs) ==
    <<[l |-> "BEGIN:VCALENDAR", v |-> [calname |-> calendar_name]]>>
    \o [i \in 1..Len(evs) |-> [l |-> "VEVENT", v |-> evs[i]]]
    \o <<[l |-> "END:VCALENDAR", v |-> [calname |-> calendar_name]]>>

\* lines 309-314: the events of the pages, pages without one skipped
RECURSIVE BuildEvents(_, _)
BuildEvents(ps, database_id) ==
    IF ps = <<>> THEN <<>>
    ELSE LET e == page_to_event(Head(ps), database_id) IN
         (IF e.tag = "Event" THEN <<e>> ELSE <<>>)
         \o BuildEvents(Tail(ps), database_id)

MappingRaises(ps, database_id) ==
    \E i \in 1..Len(ps) : IsRaise(page_to_event(ps[i], database_id))

\* get_database_title: the remote title, or the id when the title is empty
\* or the request fails
get_database_title(database_id) ==
    {IF RemoteTitle(database_id) # <<>> THEN RemoteTitle(database_id)
     ELSE database_id, database_id}

\* an except clause that catches ValueError only
IsException_valueOnly(exc) == exc = "ValueError"

\* line 351: except Exception
IsException(exc) == exc \in {"ValueError", "OSError"}

LogEntry(outcome) ==
    [db |-> databases[dbIdx], outcome |-> outcome, fetchFailed |-> fetchFailed,
     fetched |-> pages,
     path |-> IcsPath(cur.calendar_name)]

\* lines 349-353: sync_database raised exc; main counts it and goes on,
\* unless the except clause does not catch it: then it leaves main, a
\* SystemExit as the exit of the process
Caught(exc) ==
    IF IsException(exc)
    THEN /\ errors' = errors + 1
         /\ log' = Append(log, LogEntry("error"))
         /\ dbIdx' = dbIdx + 1
         /\ mpc' = "loop"
         /\ spc' = "idle"
    ELSE /\ mpc' = IF exc = "SystemExit" THEN "exited" ELSE "raised"
         /\ spc' = "idle"
         /\ UNCHANGED <<errors, log, dbIdx>>

\* lines 331-344: the database list is parsed; an empty one ends the run
MainStart ==
    /\ mpc = "start"
    /\ mpc' = IF databases = <<>> THEN "exited" ELSE "loop"
    /\ UNCHANGED <<token, databases, dbIdx, errors, log, syncVars, fetchVars,
                   fsVars, srvVars, pureVars>>

\* lines 348-350, 300-305: the loop calls sync_database for the next
\* descriptor, which resolves the id and the display name and starts the fetch
SyncEnter ==
    /\ mpc = "loop" /\ dbIdx <= Len(databases)
    /\ token \/ databases[dbIdx].name # <<>>
    /\ LET db == databases[dbIdx]
           id == SyncDatabaseId(db)
       IN  \E name \in (IF db.name # <<>> THEN {db.name} ELSE get_database_title(id)) :
              cur' = [database_id |-> id, calendar_name |-> name]
    /\ mpc' = "sync" /\ spc' = "fetching"
    /\ pages' = <<>> /\ cursor' = <<>> /\ requests' = 0 /\ fetchFailed' = FALSE
    /\ events' = <<>>
    /\ UNCHANGED <<token, databases, dbIdx, errors, log, fsVars, srvVars, pureVars>>

\* lines 58-62: notion_headers ends the process when NOTION_TOKEN is not
\* set; get_database_title (line 180) or the first query (line 149) calls it
TokenExit ==
    /\ ~token
    /\ \/ mpc = "loop" /\ dbIdx <= Len(databases) /\ databases[dbIdx].name = <<>>
       \/ mpc = "sync" /\ spc = "fetching"
    /\ Caught("SystemExit")
    /\ UNCHANGED <<token, databases, cur, events, fetchVars, fsVars, srvVars, pureVars>>

\* lines 309-310: page_to_event raises on one of the pages
MapFail ==
    /\ mpc = "sync" /\ spc = "fetched"
    /\ MappingRaises(pages, cur.database_id)
    /\ Caught("ValueError")
    /\ UNCHANGED <<token, databases, cur, events, fetchVars, fsVars, srvVars, pureVars>>

\* lines 309-322: the events are built, and write_bytes opens the file for
\* writing, which creates it or truncates it
Open ==
    /\ mpc = "sync" /\ spc = "fetched"
    /\ ~MappingRaises(pages, cur.database_id)
    /\ Lookup(fs, IcsPath(cur.calendar_name)).kind # "dir"
    /\ events' = BuildEvents(pages, cur.database_id)
    /\ fs' = FsPut(fs, IcsPath(cur.calendar_name), File(<<>>))
    /\ spc' = "opened"
    /\ UNCHANGED <<written, cur, fetchVars, mainVars, srvVars, pureVars>>

\* lines 309-322: the events are built, and the open fails (OSError)
OpenFail ==
    /\ mpc = "sync" /\ spc = "fetched"
    /\ ~MappingRaises(pages, cur.database_id)
    /\ Caught("OSError")
    /\ UNCHANGED <<token, databases, cur, events, fetchVars, fsVars, srvVars, pureVars>>

\* line 322-323: the serialization is written and sync_database returns
Write ==
    /\ mpc = "sync" /\ spc = "opened"
    /\ LET path == IcsPath(cur.calendar_name)
           bytes == ToIcal(cur.calendar_name, events)
       IN  /\ fs' = FsPut(fs, path, File(bytes))
           /\ written' = [q \in DOMAIN written \cup {path} |->
                            IF q = path
                            THEN (IF q \in DOMAIN written THEN written[q] ELSE {})
                                 \cup {bytes}
                            ELSE written[q]]
    /\ log' = Append(log, LogEntry("ok"))
    /\ dbIdx' = dbIdx + 1
    /\ mpc' = "loop" /\ spc' = "idle"
    /\ UNCHANGED <<token, databases, errors, cur, events, fetchVars, srvVars, pureVars>>

\* line 322: the write fails (OSError) after the open truncated the file
WriteFail ==
    /\ mpc = "sync" /\ spc = "opened"
    /\ Caught("OSError")
    /\ UNCHANGED <<token, databases, cur, events, fetchVars, fsVars, srvVars, pureVars>>

\* line 355: the loop is over, the final report
Report ==
    /\ mpc = "loop" /\ dbIdx > Len(databases)
    /\ mpc' = "reported"
    /\ UNCHANGED <<token, databases, dbIdx, errors, log, syncVars, fetchVars,
                   fsVars, srvVars, pureVars>>

Descriptors ==
    {DbConfig(<<"a">>, <<"/">>), DbConfig(<<"b">>, <<>>), DbConfig(<<"-", "c">>, <<"x">>)}

\* main is entered with the environment read; the output directory exists
\* (line 344 makes it before the first sync)
InitSync ==
    /\ token \in BOOLEAN
    /\ databases \in UNION {[1..n -> Descriptors] : n \in 0..MaxDbs}
    /\ mpc = "start" /\ dbIdx = 1 /\ errors = 0 /\ log = <<>>
    /\ IdleSync /\ IdleFetch /\ IdleServer /\ IdlePure
    /\ fs = [q \in {OUTPUT_DIR} |-> Dir]
    /\ written = <<>>

SyncNext ==
    \/ MainStart
    \/ SyncEnter
    \/ TokenExit
    \/ FetchFail
    \/ FetchPage(RemoteReplies)
    \/ MapFail
    \/ Open
    \/ OpenFail
    \/ Write
    \/ WriteFail
    \/ Report

Spec == InitSync /\ [][SyncNext]_vars

\* fetch_database_pages called on its own, against an arbitrary source
InitFetch ==
    /\ spc = "fetching"
    /\ cur = [database_id |-> <<"a">>, calendar_name |-> <<>>]
    /\ events = <<>>
    /\ IdleMain /\ IdleFetch /\ IdleServer /\ IdlePure /\ EmptyFs

NextFetch == FetchFail \/ FetchPage(AnyReplies)

SpecFetch == InitFetch /\ [][NextFetch]_vars

\* the loop is not interrupted: while a request can be made, one is made
FairSpecFetch == SpecFetch /\ WF_vars(NextFetch)

----------------------------------------------------------------------------
(* serve_ical.py: ICalHandler.do_GET *)

MaxPathLen == 5       \* chunks in a request path

\* s.lstrip(c)
RECURSIVE LStrip(_, _)
LStrip(s, c) ==
    IF s # <<>> /\ Head(s) = c THEN LStrip(Tail(s), c) ELSE s

\* the escapes urllib.parse.unquote decodes, on the characters of the model
HexPairs == {<<"2", "F">>, <<"2", "E">>}
HexDecode(pair) == IF pair = <<"2", "F">> THEN "/" ELSE "."

\* urllib.parse.unquote: each %XX becomes its character, once
RECURSIVE Unquote(_)
Unquote(s) ==
    IF s = <<>> THEN <<>>
    ELSE IF Head(s) = "%" /\ Len(s) >= 3 /\ SubSeq(s, 2, 3) \in HexPairs
         THEN <<HexDecode(SubSeq(s, 2, 3))>> \o Unquote(SubSeq(s, 4, Len(s)))
         ELSE <<Head(s)>> \o Unquote(Tail(s))

\* s.split("/")
RECURSIVE Split(_, _)
Split(s, part) ==
    IF s = <<>> THEN <<part>>
    ELSE IF Head(s) = "/" THEN <<part>> \o Split(Tail(s), <<>>)
    ELSE Split(Tail(s), part \o <<Head(s)>>)

\* the components pathlib keeps of a string: empty ones and "." are dropped
Components(s) ==
    SelectSeq(Split(s, <<>>), LAMBDA part : part # <<>> /\ part # <<".">>)

\* base / requested: an absolute right operand replaces the base
PathJoin(base, requested) ==
    IF StartsWith(requested, <<"/">>) THEN Components(requested)
    ELSE base \o Components(requested)

DotIcs == <<".", "i", "c", "s">>

\* the test of line 44 without its second half
IsTraversal_dotsOnly(requested) == Contains(requested, <<".", ".">>)

\* line 44: ".." in requested or requested.startswith("/")
IsTraversal(requested) ==
    Contains(requested, <<".", ".">>) \/ StartsWith(requested, <<"/">>)

\* line 41
Requested(path) == Unquote(LStrip(path, "/"))

\* send_error(code): an HTML error page
ErrorResponse(code) ==
    LET body == <<[l |-> "error page", v |-> [calname |-> <<>>]]>> IN
    [tag |-> "Response", status |-> code, ctype |-> "text/html;charset=utf-8",
     clen |-> Len(body), body |-> body]

\* lines 60-64
CalendarResponse(content) ==
    [tag |-> "Response", status |-> 200, ctype |-> "text/calendar; charset=utf-8",
     clen |-> Len(content), body |-> content]

\* the handler raised: the connection is closed without a status line
NoResponse(exc) == [tag |-> "Exception", exc |-> exc]

\* a request arrives at the idle server
Receive(Paths) ==
    /\ hpc = "idle"
    /\ \E path \in Paths : reqPath' = path
    /\ hpc' = "received"
    /\ response' = [tag |-> "None"]
    /\ UNCHANGED <<mainVars, syncVars, fetchVars, fsVars, pureVars>>

\* lines 41-57: the path is decoded and screened, and the file is looked for
GetCheck ==
    /\ hpc = "received"
    /\ LET requested == Requested(reqPath) IN
       IF IsTraversal(requested)
       THEN response' = ErrorResponse(400) /\ hpc' = "idle"
       ELSE IF ~EndsWith(requested, DotIcs)
       THEN response' = ErrorResponse(403) /\ hpc' = "idle"
       ELSE IF Lookup(fs, PathJoin(OUTPUT_DIR, requested)).kind = "missing"
       THEN response' = ErrorResponse(404) /\ hpc' = "idle"
       ELSE response' = response /\ hpc' = "checked"
    /\ UNCHANGED <<reqPath, mainVars, syncVars, fetchVars, fsVars, pureVars>>

\* lines 59-64: the file is read and sent; read_bytes raises on a directory
\* and on a file that is gone
GetRead ==
    /\ hpc = "checked"
    /\ LET entry == Lookup(fs, PathJoin(OUTPUT_DIR, Requested(reqPath))) IN
       response' = CASE entry.kind = "file" -> CalendarResponse(entry.content)
                     [] entry.kind = "dir" -> NoResponse("IsADirectoryError")
                     [] OTHER -> NoResponse("FileNotFoundError")
    /\ hpc' = "idle"
    /\ UNCHANGED <<reqPath, mainVars, syncVars, fetchVars, fsVars, pureVars>>

\* request paths: up to MaxPathLen chunks, each a character or an escape
Chunks == {<<"/">>, <<".">>, <<"a">>, DotIcs, <<"%", "2", "F">>, <<"%", "2", "E">>}
RECURSIVE Flatten(_)
Flatten(ss) == IF ss = <<>> THEN <<>> ELSE Head(ss) \o Flatten(Tail(ss))
RawPaths == {Flatten(cs) : cs \in SeqsUpTo(Chunks, MaxPathLen)}

\* what the output directory and its surroundings may hold
Secret == <<[l |-> "secret", v |-> [calname |-> <<>>]]>>
Served == ToIcal(<<"a">>, <<>>)
AIcs == <<"a">> \o DotIcs
Outside == [q \in {<< AIcs >>, << DotIcs >>} |-> File(Secret)]
ServeFss ==
    {FsPut(FsPut(Outside, OUTPUT_DIR, Dir), OUTPUT_DIR \o << AIcs >>, e) :
        e \in {File(Served), Dir}}
    \cup {FsPut(FsPut(FsPut(Outside, OUTPUT_DIR, Dir), OUTPUT_DIR \o << <<"a">> >>, Dir),
                OUTPUT_DIR \o << <<"a">>, AIcs >>, File(Served))}
    \cup {FsPut(Outside, OUTPUT_DIR, Dir)}

\* the server alone, one request against a directory that does not change
InitServe ==
    /\ fs \in ServeFss
    /\ written = <<>>
    /\ reqPath \in RawPaths
    /\ hpc = "received" /\ response = [tag |-> "None"]
    /\ IdleMain /\ IdleSync /\ IdleFetch /\ IdlePure

NextServe == GetCheck \/ GetRead

SpecServe == InitServe /\ [][NextServe]_vars

\* the server next to a sync run that rewrites a file of an earlier run
RaceName == <<"/">>
RacePaths == {<<"/">> \o SafeName(RaceName) \o DotIcs, <<"/", "x">> \o DotIcs}
Previous == ToIcal(RaceName, <<>>)

InitRace ==
    /\ token \in BOOLEAN
    /\ databases = <<DbConfig(<<"a">>, RaceName), DbConfig(<<"-", "c">>, <<"x">>)>>
    /\ mpc = "start" /\ dbIdx = 1 /\ errors = 0 /\ log = <<>>
    /\ IdleSync /\ IdleFetch /\ IdleServer /\ IdlePure
    /\ fs = FsPut([q \in {OUTPUT_DIR} |-> Dir], IcsPath(RaceName), File(Previous))
    /\ written = [q \in {IcsPath(RaceName)} |-> {Previous}]

NextRace ==
    \/ SyncNext
    \/ Receive(RacePaths)
    \/ GetCheck
    \/ GetRead

SpecRace == InitRace /\ [][NextRace]_vars

----------------------------------------------------------------------------
(* Claims.                                                                 *)

UidsDone == ppc = "done" /\ output.tag = "Uids"

\* the pairs the two uids were computed from: as given for a direct call,
\* with the database id as sync_database passes it on otherwise
UidPair1 ==
    IF output.via = "stable_uid" THEN <<input.db1, input.rec1>>
    ELSE <<Remove(input.db1, "-"), input.rec1>>
UidPair2 ==
    IF output.via = "stable_uid" THEN <<input.db2, input.rec2>>
    ELSE <<Remove(input.db2, "-"), input.rec2>>

\* C4 as stated: any two pairs (databaseId, recordId) that differ in the
\* database id or in the record id get different uids, from stable_uid
\* directly and through sync_database from the configured database id.
C4_DifferentPairsDifferentUids ==
    UidsDone =>
        (<<input.db1, input.rec1>> # <<input.db2, input.rec2>>
            => output.u1 # output.u2)

\* C4 amended: two pairs whose database ids contain no ":" get different
\* uids whenever they differ, where through sync_database a database id
\* counts as it is passed on, with its dashes removed.
C4_ColonFreePairsDifferentUids ==
    UidsDone =>
        ((/\ ~Contains(input.db1, <<":">>)
          /\ ~Contains(input.db2, <<":">>)
          /\ UidPair1 # UidPair2)
            => output.u1 # output.u2)

\* C4 witness: two colon-free pairs with the same record id and different
\* database ids went through sync_database and got different uids.
C4_Witness ==
    /\ UidsDone /\ output.via = "sync_database"
    /\ input.rec1 = input.rec2 /\ input.rec1 # <<>>
    /\ ~Contains(input.db1, <<":">>) /\ ~Contains(input.db2, <<":">>)
    /\ Remove(input.db1, "-") # Remove(input.db2, "-")
    /\ output.u1 # output.u2

\* the date value page_to_event reads from the page
UsedDate == find_date_property(input.page.properties)[1].date[1]

NormalizedAs(date_str, value) ==
    IF Contains(date_str, <<"T">>)
    THEN value.tag = "Instant" /\ value.utcoffset = 0
    ELSE value.tag = "AllDay"

\* C8: in the event page_to_event returns, a start or end string with a
\* time-of-day component is a timed instant in UTC, one without is an
\* all-day date, and an all-day start with no end has end = start.
C8_DatesNormalized ==
    (ppc = "done" /\ output.tag = "Event") =>
        /\ NormalizedAs(UsedDate.start, output.dtstart)
        /\ UsedDate.end # <<>> => NormalizedAs(UsedDate.end, output.dtend)
        /\ (output.dtstart.tag = "AllDay" /\ UsedDate.end = <<>>)
              => output.dtend = output.dtstart

\* C1: the list fetch_database_pages returns holds at most 500 records,
\* whatever the source replies.
C1_AtMostCap ==
    spc = "fetched" => Len(pages) <= MAX_PAGES

\* C9: the pagination loop terminates, whatever the source replies (empty
\* pages that signal more pages, repeated and absent cursors included).
C9_FetchTerminates ==
    <>(spc = "fetched")

\* C2: when a query request fails, the fetch issues no further request and
\* returns what it accumulated, and the failure reaches main as an error of
\* that database: the attempt goes no further and is counted.
C2_FetchFailureReported ==
    /\ (mpc = "sync" /\ fetchFailed) => spc = "fetched"
    /\ \A i \in DOMAIN log : log[i].fetchFailed => log[i].outcome = "error"

ErrorEntries == {i \in DOMAIN log : log[i].outcome = "error"}

\* C3: with a valid configuration main attempts every database of the list
\* in order, goes on after a failed one, counts exactly one error per failed
\* database, never lets an exception past, and reaches the final report.
C3_FailuresIsolated ==
    (token /\ databases # <<>>) =>
        /\ mpc \notin {"raised", "exited"}
        /\ Len(log) = dbIdx - 1
        /\ \A i \in DOMAIN log : log[i].db = databases[i]
        /\ errors = Cardinality(ErrorEntries)
        /\ mpc = "reported" => Len(log) = Len(databases)
        /\ mpc # "reported" => ENABLED SyncNext

\* C3 witness: the run reported after a database that failed in the mapping,
\* one that failed in the write and, after both, one that was synced.
C3_Witness ==
    /\ token
    /\ mpc = "reported" /\ Len(log) = 3 /\ errors = 2
    /\ log[1].outcome = "error" /\ MappingRaises(log[1].fetched, <<"c">>)
    /\ log[2].outcome = "error" /\ ~MappingRaises(log[2].fetched, <<"a">>)
    /\ log[2].db.id = <<"a">>
    /\ log[3].outcome = "ok"

\* a page has a usable date: a date property with a value and a start
HasUsableDate(page) ==
    \E i \in 1..Len(page.properties) :
        /\ page.properties[i].type = "date"
        /\ page.properties[i].date # <<>>
        /\ page.properties[i].date[1].start # <<>>

\* the uids of the records with a usable date, in order
RECURSIVE ExpectedUids(_, _)
ExpectedUids(ps, database_id) ==
    IF ps = <<>> THEN <<>>
    ELSE (IF HasUsableDate(Head(ps))
          THEN <<stable_uid(database_id, Head(ps).id)>> ELSE <<>>)
         \o ExpectedUids(Tail(ps), database_id)

\* the uids of the events of a calendar file, in order
FileUids(content) ==
    LET evs == SelectSeq(content, LAMBDA ln : ln.l = "VEVENT")
    IN  [i \in 1..Len(evs) |-> evs[i].v.uid]

\* C7: after a run in which every sync succeeded, the output directory
\* holds one calendar file per database of the list, and the file of each
\* database holds one event per fetched record with a usable date, in fetch
\* order; the error count is 0.
C7_OneFilePerDatabase ==
    (mpc = "reported" /\ ErrorEntries = {}) =>
        /\ errors = 0
        /\ \A i, j \in DOMAIN log :
             SyncDatabaseId(log[i].db) # SyncDatabaseId(log[j].db)
                => log[i].path # log[j].path
        /\ \A i \in DOMAIN log :
             LET entry == Lookup(fs, log[i].path) IN
             /\ entry.kind = "file"
             /\ FileUids(entry.content)
                  = ExpectedUids(log[i].fetched, SyncDatabaseId(log[i].db))

Answered == hpc = "idle" /\ response.tag # "None"

\* the file a request names in the output directory
NamedPath == OUTPUT_DIR \o Components(Requested(reqPath))

\* C5: every GET is answered with one status: 400 if the decoded path has
\* ".." in it or is rooted, else 403 if it does not end in .ics, else 404 if
\* the named file does not exist, else 200 with Content-Type text/calendar
\* and the Content-Length of the body.
C5_StatusOrder ==
    Answered =>
        /\ response.tag = "Response"
        /\ LET requested == Requested(reqPath) IN
           IF Contains(requested, <<".", ".">>) \/ StartsWith(requested, <<"/">>)
           THEN response.status = 400
           ELSE IF ~EndsWith(requested, DotIcs)
           THEN response.status = 403
           ELSE IF Lookup(fs, NamedPath).kind # "file"
           THEN response.status = 404
           ELSE /\ response.status = 200
                /\ response.ctype = "text/calendar; charset=utf-8"
                /\ response.clen = Len(response.body)

\* C6: a 200 response carries the content of a regular file that lies in the
\* output directory, is the one the request names and has a name ending in
\* .ics; nothing from outside the directory, and no listing.
C6_OnlyIcsFilesInside ==
    (Answered /\ response.tag = "Response" /\ response.status = 200) =>
        /\ NamedPath \in DOMAIN fs
        /\ Len(NamedPath) > Len(OUTPUT_DIR)
        /\ \A i \in 1..Len(NamedPath) : NamedPath[i] # <<".", ".">>
        /\ fs[NamedPath].kind = "file"
        /\ EndsWith(NamedPath[Len(NamedPath)], DotIcs)
        /\ response.body = fs[NamedPath].content

\* C6 witness: a path with a leading slash and an escaped one was answered
\* 200 with a file of a subdirectory of the output directory.
C6_Witness ==
    /\ Answered /\ response.tag = "Response" /\ response.status = 200
    /\ StartsWith(reqPath, <<"/">>)
    /\ Contains(reqPath, <<"%">>)
    /\ Len(NamedPath) = Len(OUTPUT_DIR) + 2
    /\ response.body = Served

\* C10: next to a running sync, a 200 response for a calendar file carries a
\* complete serialization some sync wrote to it, never an empty or cut one,
\* and no request fails between the existence check and the read.
C10_CompleteSnapshots ==
    Answered =>
        /\ response.tag # "Exception"
        /\ response.status = 200 =>
              /\ NamedPath \in DOMAIN written
              /\ response.body \in written[NamedPath]

====
